---- MODULE Spec2Model ----
(***************************************************************************)
(* A model of the tensor-construction layer (src/value/impl_tensor/        *)
(* create.rs) and of the training checkpoint bridge (src/training/mod.rs)  *)
(* of the ort crate.                                                       *)
(*                                                                         *)
(* Several state machines share this module:                               *)
(*   SpecDims      the shape validator, ToDimensions::to_dimensions,       *)
(*                 applied to inputs drawn from bounded sets;              *)
(*   Spec          tensor construction: the native value handles, the      *)
(*                 Foreign Values wrapping them and the buffers they       *)
(*                 retain;                                                 *)
(*   SpecShared    constructions from reference-counted sources;           *)
(*   SpecCkpt      the Checkpoint wrapper and the native calls it issues;  *)
(*   SpecOpt       the Optimizer and the native calls it issues;           *)
(*   SpecApi       training_api called from several threads;               *)
(*   SpecTraining  the Checkpoints or the Optimizer, in a build with or    *)
(*                 without training;                                       *)
(*   SpecHandles   the tensor constructors or the Checkpoints.             *)
(***************************************************************************)
EXTENDS Integers, Sequences, FiniteSets, TLC

VARIABLES
    dimIn,      \* the argument of the to_dimensions call under study
    dimOut,     \* its result, or Pending before the call
    opCount,    \* tensor constructions made so far
    obtained,   \* native value handles a create entry point has returned
    releases,   \* per native value handle, the ReleaseValue calls made on it
    values,     \* the Foreign Values that exist
    arc,        \* per shared buffer: strong count, and how often it was freed
    callerArcs, \* per shared buffer: reference-counting handles the caller holds
    lastOp,     \* the last construction: its input and its outcome
    calls,      \* the native entry points the last construction called, in order
    build,      \* whether the native library was built with training
    apiCell,    \* the OnceLock of training_api: uninit, table or null
    apiLookups, \* GetTrainingApi calls made so far
    ckLoads,    \* checkpoint loads attempted so far
    ckLive,     \* native handles of the Checkpoints that exist
    ckLoaded,   \* native handles successful loads have returned
    ckDropped,  \* native handles of the Checkpoints that were destroyed
    ckReleases, \* per checkpoint handle, the ReleaseCheckpointState calls made on it
    ckProps,    \* per checkpoint handle, the properties the native side stores
    ckAdded,    \* per checkpoint handle, the Property last added under each name
    ckAsked,    \* the name the last get_property was called with
    ckLateUse,  \* a native call was made on a checkpoint handle after its release
    ckLast,     \* the last checkpoint operation and its outcome
    ckCalls,    \* the native entry points the last checkpoint operation called, in order
    optState,   \* the Optimizer: none, alive or dropped
    optSession, \* the training-session handle the Optimizer holds
    optLr,      \* the learning rate the native session keeps
    optSched,   \* whether a scheduler is registered with the native session
    optSteps,   \* optimizer steps the native session has taken
    optLast,    \* the last Optimizer operation and its outcome
    optCalls,   \* the native entry points the last Optimizer operation called, in order
    thPc,       \* per thread, its position inside training_api
    thGot       \* per thread, what its last training_api call returned

dimVars == <<dimIn, dimOut>>
tensorVars == <<opCount, obtained, releases, values, arc, callerArcs, lastOp, calls>>
ckptVars == <<build, apiCell, apiLookups, ckLoads, ckLive, ckLoaded, ckDropped, ckReleases,
              ckProps, ckAdded, ckAsked, ckLateUse, ckLast, ckCalls>>
optVars == <<optState, optSession, optLr, optSched, optSteps, optLast, optCalls>>
thrVars == <<thPc, thGot>>

(***************************************************************************)
(* Bounds of the model.  Machine integers are scaled down: usize and i64   *)
(* are IntBits wide (64 in the program), i32 is one bit narrower, so that  *)
(* every i32 widens to i64 without loss and the upper half of usize does   *)
(* not fit an i64, as in the program.                                      *)
(***************************************************************************)
IntBits == 3
MaxRank == 2
MaxLen == 3
MaxOps == 1
MaxShared == 2
MaxLoads == 2
MaxSteps == 2
MaxThreads == 3

Pow2(n) == 2 ^ n

USIZE_MAX == Pow2(IntBits) - 1
I64_MIN == 0 - Pow2(IntBits - 1)
I64_MAX == Pow2(IntBits - 1) - 1
I32_MIN == 0 - Pow2(IntBits - 2)
I32_MAX == Pow2(IntBits - 2) - 1

DimTypes == {"usize", "i32", "i64"}

RangeOf(ty) ==
    CASE ty = "usize" -> 0 .. USIZE_MAX
      [] ty = "i32" -> I32_MIN .. I32_MAX
      [] ty = "i64" -> I64_MIN .. I64_MAX

SeqsUpTo(S, n) == UNION {[1 .. k -> S] : k \in 0 .. n}

None == [some |-> FALSE, v |-> 0]
Some(n) == [some |-> TRUE, v |-> n]
ExpectedSizes == {None} \cup {Some(n) : n \in 0 .. MaxLen}

(***************************************************************************)
(* Results of the shape validator.  An error carries its ErrorCode, which  *)
(* of the three messages it is, and the values the message interpolates:   *)
(* the dimension number (index), or the shape, its element count (sum) and *)
(* the expected count.                                                     *)
(***************************************************************************)
OkDims(v) ==
    [ok |-> TRUE, dims |-> v, code |-> "", kind |-> "", index |-> 0, sum |-> 0, expected |-> 0]

ErrInvalidDimension(n) ==
    [ok |-> FALSE, dims |-> <<>>, code |-> "InvalidArgument", kind |-> "InvalidDimension",
     index |-> n, sum |-> 0, expected |-> 0]

ErrMismatch(v, sum, expected_size) ==
    [ok |-> FALSE, dims |-> v, code |-> "InvalidArgument", kind |-> "Mismatch",
     index |-> 0, sum |-> sum, expected |-> expected_size]

ErrScalarLength ==
    [ok |-> FALSE, dims |-> <<>>, code |-> "InvalidArgument", kind |-> "ScalarLength",
     index |-> 0, sum |-> 0, expected |-> 0]

Pending ==
    [ok |-> FALSE, dims |-> <<>>, code |-> "", kind |-> "Pending", index |-> 0, sum |-> 0, expected |-> 0]

(***************************************************************************)
(* `*c as i64`: a usize keeps its bits, so the upper half of the usize     *)
(* range becomes negative; i32 and i64 keep their value.                   *)
(***************************************************************************)
cast_i64(ty, c) ==
    IF ty = "usize" /\ c > I64_MAX THEN c - Pow2(IntBits) ELSE c

(* `x as usize` of an i64: the two's complement bits read as unsigned. *)
cast_usize(x) == x % Pow2(IntBits)

(***************************************************************************)
(* util::element_count: the number of elements of a shape, the product of  *)
(* its dimensions as a usize.                                              *)
(***************************************************************************)
RECURSIVE element_count_from(_, _)
element_count_from(v, k) ==
    IF k > Len(v) THEN 1
    ELSE (cast_usize(v[k]) * element_count_from(v, k + 1)) % Pow2(IntBits)

element_count(v) == element_count_from(v, 1)

(***************************************************************************)
(* The map over .iter().enumerate(): i is the 0-based position.  The       *)
(* collect::<Result<_>>() stops at the first Err, so the result of the map *)
(* is either every converted dimension or the error of the first position  *)
(* whose test failed.                                                      *)
(***************************************************************************)
dimension_ok(c) == c >= 1

RECURSIVE first_invalid(_, _)
first_invalid(dims, i) ==
    IF i >= Len(dims) THEN -1
    ELSE IF dimension_ok(dims[i + 1]) THEN first_invalid(dims, i + 1)
    ELSE i

(* `sum != expected_size`; the variant accepts data longer than the shape. *)
count_mismatch_only_larger(sum, expected_size) == sum > expected_size

count_mismatch(sum, expected_size) == sum # expected_size

to_dimensions(ty, dims, expected_size) ==
    LET i == first_invalid(dims, 0) IN
    IF i >= 0 THEN ErrInvalidDimension(i + 1)
    ELSE LET v == [k \in 1 .. Len(dims) |-> cast_i64(ty, dims[k])]
             sum == element_count(v)
         IN  IF expected_size.some
             THEN IF count_mismatch(sum, expected_size.v)
                  THEN ErrMismatch(v, sum, expected_size.v)
                  ELSE OkDims(v)
             ELSE OkDims(v)

(* impl ToDimensions for (): the scalar shape. *)
unit_to_dimensions(expected_size) ==
    IF (expected_size.some /\ expected_size.v = 1) \/ ~expected_size.some
    THEN OkDims(<<>>)
    ELSE ErrScalarLength

(***************************************************************************)
(* The (shape, data) tuples: every ref_parts, ref_parts_mut and into_parts *)
(* of a tuple validates with `self.0.to_dimensions(Some(self.1.len()))`.   *)
(***************************************************************************)
tuple_shape(shape, len) ==
    IF shape.kind = "unit" THEN unit_to_dimensions(Some(len))
    ELSE to_dimensions(shape.ty, shape.dims, Some(len))

SeqShape(ty, dims) == [kind |-> "seq", ty |-> ty, dims |-> dims]
UnitShape == [kind |-> "unit", ty |-> "unit", dims |-> <<>>]

DimInputs ==
    {[shape |-> SeqShape(ty, d), expected |-> e] :
        ty \in DimTypes, d \in SeqsUpTo(RangeOf("usize") \cup RangeOf("i64"), MaxRank), e \in ExpectedSizes}
    \cup {[shape |-> UnitShape, expected |-> e] : e \in ExpectedSizes}

WellTyped(in) ==
    in.shape.kind = "seq" => \A k \in 1 .. Len(in.shape.dims) : in.shape.dims[k] \in RangeOf(in.shape.ty)

DimsInit ==
    /\ dimIn \in {in \in DimInputs : WellTyped(in)}
    /\ dimOut = Pending

(* The validator at rest, while another machine runs. *)
DimsIdle ==
    /\ dimIn = [shape |-> UnitShape, expected |-> None]
    /\ dimOut = Pending

(* A caller applies to_dimensions to a slice, Vec or array of dimensions. *)
ValidateDims ==
    /\ dimOut = Pending
    /\ dimIn.shape.kind = "seq"
    /\ dimOut' = to_dimensions(dimIn.shape.ty, dimIn.shape.dims, dimIn.expected)
    /\ UNCHANGED <<dimIn, tensorVars, ckptVars, optVars, thrVars>>

(* A caller applies to_dimensions to the scalar shape (). *)
ValidateUnit ==
    /\ dimOut = Pending
    /\ dimIn.shape.kind = "unit"
    /\ dimOut' = unit_to_dimensions(dimIn.expected)
    /\ UNCHANGED <<dimIn, tensorVars, ckptVars, optVars, thrVars>>

(***************************************************************************)
(* Tensor construction.                                                    *)
(*                                                                         *)
(* The sources a tensor is constructed from.  A view source implements     *)
(* TensorArrayData (ref_parts), a mutable one TensorArrayDataMut as well   *)
(* (ref_parts_mut), an owned one OwnedTensorArrayData (into_parts).  The   *)
(* shared sources are reference-counted: Arc<[T]>, Arc<Box<[T]>> and       *)
(* ndarray's ArcArray.                                                     *)
(***************************************************************************)
Arcs == {"arc_slice", "arc_box", "arc_array"}
TupleViewKinds == {"slice", "slice_mut", "arc_slice", "arc_box"}
NdViewKinds == {"cow_array", "arc_array", "array_ref", "array_mut", "array_view", "array_view_mut"}
ViewKinds == TupleViewKinds \cup NdViewKinds
MutKinds == {"slice_mut", "array_view_mut", "array_mut"}
OwnedTupleKinds == {"vec", "box"}
OwnedKinds == OwnedTupleKinds \cup {"array"}

(* Addresses.  The n-th construction's caller keeps an owned buffer's
   header (pointer, length, capacity) on its stack and the elements on the
   heap; Box::new and a contiguous copy allocate afresh. *)
StackAddr(n) == 10 + n
HeapAddr(n) == 20 + n
BoxAddr(n) == 30 + n
CopyAddr(n) == 40 + n
BorrowedAddr(n) == 50 + n
SharedAddr(a) == CASE a = "arc_slice" -> 61 [] a = "arc_box" -> 62 [] a = "arc_array" -> 63
RawAddrs == {71, 72}

SourceAddr(kind, n) ==
    IF kind \in Arcs THEN SharedAddr(kind)
    ELSE IF kind \in OwnedKinds THEN HeapAddr(n)
    ELSE BorrowedAddr(n)

(* The shapes and arrays the constructions are tried on. *)
TupleShapes ==
    {UnitShape, SeqShape("usize", <<2>>), SeqShape("i64", <<0>>), SeqShape("i32", <<1, 2>>)}
DataLens == {0, 1, 2}

NdArrays ==
    {[dims |-> <<1>>, len |-> 1], [dims |-> <<1, 2>>, len |-> 2], [dims |-> <<0>>, len |-> 0]}

RawShapes == {<<>>, <<2>>, <<0>>, <<-1>>}

SourceInputs(kinds, n) ==
    {[kind |-> k, shape |-> sh, len |-> l, contiguous |-> TRUE,
      hdr |-> StackAddr(n), data |-> SourceAddr(k, n)] :
        k \in kinds \ (NdViewKinds \cup {"array"}), sh \in TupleShapes, l \in DataLens}
    \cup
    {[kind |-> k, shape |-> SeqShape("usize", a.dims), len |-> a.len, contiguous |-> c,
      hdr |-> StackAddr(n), data |-> SourceAddr(k, n)] :
        k \in kinds \cap (NdViewKinds \cup {"array"}), a \in NdArrays, c \in BOOLEAN}

(* Option<Box<dyn Any>>: what a Foreign Value retains.  An owned buffer is
   described by where its header and its elements are; a shared one by the
   reference-counted buffer the retained handle points to. *)
NoGuard == [kind |-> "none", hdr |-> 0, data |-> 0]
BufferGuard(kind, hdr, data) == [kind |-> kind, hdr |-> hdr, data |-> data]

(* Outcomes of a native create entry point: a success status with a handle
   in the out-pointer, a success status leaving the out-pointer null, or a
   non-success status. *)
CreateOutcomes == {"ok", "null", "err"}
StatusOutcomes == {"ok", "err"}

NativeCall(fn, data, count, out) == [fn |-> fn, data |-> data, count |-> count, out |-> out]

PartsErr(err) == [ok |-> FALSE, err |-> err, shape |-> <<>>, data |-> 0, num_elements |-> 0, guard |-> NoGuard]
Parts(shape, data, num_elements, guard) ==
    [ok |-> TRUE, err |-> "", shape |-> shape, data |-> data, num_elements |-> num_elements, guard |-> guard]

(* Arc::clone and the drop of an Arc: the last drop frees the buffer. *)
arc_clone(st, a) == [st EXCEPT !.strong[a] = @ + 1]

arc_drop(st, a) ==
    [strong |-> [st.strong EXCEPT ![a] = @ - 1],
     frees |-> IF st.strong[a] = 1 THEN [st.frees EXCEPT ![a] = @ + 1] ELSE st.frees]

(* The guard a view source hands out: Some(Box::new(self.1.clone())) for a
   shared source, None for a borrowed one.  The variant retains nothing. *)
guard_of_nothing(in) == NoGuard

guard_of(in) ==
    IF in.kind \in Arcs THEN BufferGuard(in.kind, 0, in.data) ELSE NoGuard

take_guard(st, g) == IF g.kind \in Arcs THEN arc_clone(st, g.kind) ELSE st

(* The drop of a guard: a retained shared handle gives up its reference. *)
drop_guard(st, g) == IF g.kind \in Arcs THEN arc_drop(st, g.kind) ELSE st

(* The shape of an ndarray: `self.shape().iter().map(|d| *d as i64)`. *)
nd_shape(in) == [k \in 1 .. Len(in.shape.dims) |-> cast_i64("usize", in.shape.dims[k])]

(* TensorArrayData::ref_parts and TensorArrayDataMut::ref_parts_mut. *)
ref_parts(in) ==
    IF in.kind \in TupleViewKinds
    THEN LET r == tuple_shape(in.shape, in.len) IN
         IF r.ok THEN Parts(r.dims, in.data, in.len, guard_of(in)) ELSE PartsErr("Validation")
    ELSE IF in.contiguous
         THEN Parts(nd_shape(in), in.data, in.len, guard_of(in))
         ELSE PartsErr("NonContiguous")

ref_parts_mut(in) ==
    IF in.kind = "slice_mut"
    THEN LET r == tuple_shape(in.shape, in.len) IN
         IF r.ok THEN Parts(r.dims, in.data, in.len, NoGuard) ELSE PartsErr("Validation")
    ELSE IF in.contiguous
         THEN Parts(nd_shape(in), in.data, in.len, NoGuard)
         ELSE PartsErr("NonContiguous")

(* Vec::as_mut_ptr / <[T]>::as_mut_ptr: the address of the elements.  The
   variant takes the address of the buffer's header instead. *)
as_mut_ptr_of_header(buf) == buf.hdr

as_mut_ptr(buf) == buf.data

(* Box::new(buf): the header moves to the heap, the elements stay. *)
box_new(buf, n) == BufferGuard(buf.kind, BoxAddr(n), buf.data)

(* `self.as_standard_layout().into_owned()`: a contiguous copy. *)
standard_copy(buf, n) == BufferGuard(buf.kind, StackAddr(n), CopyAddr(n))

(* OwnedTensorArrayData::into_parts of the n-th construction. *)
into_parts(in, n) ==
    LET buf == BufferGuard(in.kind, in.hdr, in.data) IN
    IF in.kind \in OwnedTupleKinds
    THEN LET r == tuple_shape(in.shape, in.len) IN
         IF r.ok THEN Parts(r.dims, as_mut_ptr(buf), in.len, box_new(buf, n))
         ELSE PartsErr("Validation")
    ELSE IF in.contiguous
         THEN LET this == box_new(buf, n) IN Parts(nd_shape(in), as_mut_ptr(this), in.len, this)
         ELSE LET contiguous_array == standard_copy(buf, n) IN
              Parts(nd_shape(in), as_mut_ptr(contiguous_array), in.len, box_new(contiguous_array, n))

(* A Foreign Value: ValueInner and the wrapper around it. *)
ForeignValue(ptr, dims, ty, memory_info, backing, data, entry) ==
    [ptr |-> ptr, dims |-> dims, ty |-> ty, memory_info |-> memory_info, drop |-> TRUE,
     backing |-> backing, data |-> data, entry |-> entry, wrapper |-> "Tensor", upgradable |-> "none"]

(* The guard of a failed tensor_from_array is dropped as the function
   returns its error.  The variant keeps it alive forever. *)
release_failed_guard_leaky(st, g) == st

release_failed_guard(st, g) == drop_guard(st, g)

(***************************************************************************)
(* tensor_from_array: CreateTensorWithDataAsOrtValue with the status       *)
(* checked and then the out-pointer.  h is the handle the native side      *)
(* returns if it returns one; st is the state of the shared buffers.       *)
(***************************************************************************)
tensor_from_array(st, memory_info, shape, data, num_elements, guard, native, h) ==
    LET call == NativeCall("CreateTensorWithDataAsOrtValue", data, num_elements,
                          IF native = "ok" THEN h ELSE 0) IN
    IF native = "err"
    THEN [ok |-> FALSE, err |-> "NativeStatus", value |-> {}, call |-> call,
          arc |-> release_failed_guard(st, guard)]
    ELSE IF native = "null"
    THEN [ok |-> FALSE, err |-> "NullResult", value |-> {}, call |-> call,
          arc |-> release_failed_guard(st, guard)]
    ELSE [ok |-> TRUE, err |-> "",
          value |-> {ForeignValue(h, shape, "primitive", memory_info, guard, data,
                                  "CreateTensorWithDataAsOrtValue")},
          call |-> call, arc |-> st]

(* TensorRef::new / TensorRefMut::new followed by `upgradable = false`. *)
as_view(vs, wrapper) == {[v EXCEPT !.wrapper = wrapper, !.upgradable = "false"] : v \in vs}

(* CString::new on each element in order: the first element with an
   embedded null byte fails the collect. *)
null_terminated_copies(strings) == \A k \in 1 .. Len(strings) : strings[k] # "nul"

StringData(len) == [1 .. len -> {"plain", "nul"}]

(***************************************************************************)
(* The caller's side of a construction from a shared source.  The           *)
(* constructors take their input by value: a caller that keeps its handle  *)
(* passes a clone of it (argMode "clone"), a caller that gives its handle  *)
(* up moves it (argMode "move").  Either way the input is dropped when the *)
(* constructor returns.                                                    *)
(***************************************************************************)
ArcOf(in) == IF in.kind \in Arcs THEN in.kind ELSE "none"
ArgModes(in) == IF in.kind \in Arcs THEN {"clone", "move"} ELSE {"borrow"}
CanPass(in) == in.kind \in Arcs => callerArcs[in.kind] >= 1

pass_argument(st, a, mode) == IF a # "none" /\ mode = "clone" THEN arc_clone(st, a) ELSE st
drop_input(st, a) == IF a = "none" THEN st ELSE arc_drop(st, a)
CallerAfter(a, mode) ==
    IF a # "none" /\ mode = "move" THEN [callerArcs EXCEPT ![a] = @ - 1] ELSE callerArcs
Strong(st, a) == IF a = "none" THEN 0 ELSE st.strong[a]

NoOp ==
    [op |-> "none", src |-> "none", result |-> "", err |-> "", ptr |-> 0, inData |-> 0,
     arc |-> "none", argMode |-> "", rcBefore |-> 0, rcAfter |-> 0]

Op(op, in, mode, result, err, ptr, stAfter) ==
    [op |-> op, src |-> in.kind, result |-> result, err |-> err, ptr |-> ptr, inData |-> in.data,
     arc |-> ArcOf(in), argMode |-> mode,
     rcBefore |-> Strong(arc, ArcOf(in)), rcAfter |-> Strong(stAfter, ArcOf(in))]

Outcome(r) == IF r.ok THEN "Ok" ELSE "Err"
Handles == 1 .. (MaxOps + MaxShared)

TensorInit ==
    /\ opCount = 0
    /\ obtained = {}
    /\ releases = [h \in Handles |-> 0]
    /\ values = {}
    /\ arc = [strong |-> [a \in Arcs |-> 1], frees |-> [a \in Arcs |-> 0]]
    /\ callerArcs = [a \in Arcs |-> 1]
    /\ lastOp = NoOp
    /\ calls = <<>>

(* What a construction that stops before any native call leaves behind. *)
rejected(op, in, mode, err, st) ==
    /\ arc' = st
    /\ lastOp' = Op(op, in, mode, "Err", err, 0, st)
    /\ calls' = <<>>
    /\ UNCHANGED <<values, obtained>>

(* What a construction through tensor_from_array leaves behind. *)
constructed(op, in, mode, r, wrapper, st, h) ==
    /\ arc' = st
    /\ lastOp' = Op(op, in, mode, Outcome(r), r.err, IF r.ok THEN h ELSE 0, st)
    /\ calls' = <<r.call>>
    /\ values' = values \cup (IF wrapper = "Tensor" THEN r.value ELSE as_view(r.value, wrapper))
    /\ obtained' = IF r.call.out # 0 THEN obtained \cup {r.call.out} ELSE obtained

(* Tensor::from_array *)
from_array(in, native) ==
    LET h == opCount + 1
        parts == into_parts(in, h)
    IN  IF ~parts.ok THEN rejected("from_array", in, "owned", parts.err, arc)
        ELSE constructed("from_array", in, "owned",
                 tensor_from_array(arc, "default", parts.shape, parts.data, parts.num_elements,
                                   parts.guard, native, h),
                 "Tensor", arc, h)

FromArray ==
    /\ opCount < MaxOps
    /\ \E in \in SourceInputs(OwnedKinds, opCount + 1), native \in CreateOutcomes :
          /\ ~into_parts(in, opCount + 1).ok => native = "ok"
          /\ from_array(in, native)
    /\ opCount' = opCount + 1
    /\ UNCHANGED <<releases, callerArcs, dimVars, ckptVars, optVars, thrVars>>

(* TensorRef::from_array_view *)
from_array_view(in, mode, native) ==
    LET a == ArcOf(in)
        h == opCount + 1
        st1 == pass_argument(arc, a, mode)
        parts == ref_parts(in)
    IN  IF ~parts.ok THEN rejected("from_array_view", in, mode, parts.err, drop_input(st1, a))
        ELSE LET r == tensor_from_array(take_guard(st1, parts.guard), "default", parts.shape,
                                        parts.data, element_count(parts.shape), parts.guard, native, h)
             IN  constructed("from_array_view", in, mode, r, "TensorRef", drop_input(r.arc, a), h)

FromArrayViewOf(kinds, limit) ==
    /\ opCount < limit
    /\ \E in \in SourceInputs(kinds, opCount + 1), native \in CreateOutcomes :
          /\ CanPass(in)
          /\ ~ref_parts(in).ok => native = "ok"
          /\ \E mode \in ArgModes(in) :
                /\ from_array_view(in, mode, native)
                /\ callerArcs' = CallerAfter(ArcOf(in), mode)
    /\ opCount' = opCount + 1
    /\ UNCHANGED <<releases, dimVars, ckptVars, optVars, thrVars>>

FromArrayView == FromArrayViewOf(ViewKinds, MaxOps)

(* The constructions from Arc<[T]> and Arc<Box<[T]>> alone. *)
SharedFromArrayView == FromArrayViewOf({"arc_slice", "arc_box"}, MaxShared)

(* TensorRefMut::from_array_view_mut *)
from_array_view_mut(in, native) ==
    LET h == opCount + 1
        parts == ref_parts_mut(in)
    IN  IF ~parts.ok THEN rejected("from_array_view_mut", in, "borrow", parts.err, arc)
        ELSE constructed("from_array_view_mut", in, "borrow",
                 tensor_from_array(arc, "default", parts.shape, parts.data,
                                   element_count(parts.shape), parts.guard, native, h),
                 "TensorRefMut", arc, h)

FromArrayViewMut ==
    /\ opCount < MaxOps
    /\ \E in \in SourceInputs(MutKinds, opCount + 1), native \in CreateOutcomes :
          /\ ~ref_parts_mut(in).ok => native = "ok"
          /\ from_array_view_mut(in, native)
    /\ opCount' = opCount + 1
    /\ UNCHANGED <<releases, callerArcs, dimVars, ckptVars, optVars, thrVars>>

(* TensorRefMut::from_raw *)
from_raw(info, data, shape, native) ==
    LET h == opCount + 1
        in == [kind |-> "raw", data |-> data]
    IN  constructed("from_raw", in, "raw",
            tensor_from_array(arc, info, shape, data, element_count(shape), NoGuard, native, h),
            "TensorRefMut", arc, h)

FromRaw ==
    /\ opCount < MaxOps
    /\ \E data \in RawAddrs, shape \in RawShapes, native \in CreateOutcomes :
          from_raw("given", data, shape, native)
    /\ opCount' = opCount + 1
    /\ UNCHANGED <<releases, callerArcs, dimVars, ckptVars, optVars, thrVars>>

(***************************************************************************)
(* Tensor::from_string_array: ref_parts, then CreateTensorAsOrtValue, then *)
(* the null-terminated copies, then FillStringTensor.  The guard of        *)
(* ref_parts is held in `_guard` until the function returns; value_ptr is  *)
(* a raw pointer until the final Ok(Value { .. }).                         *)
(***************************************************************************)
from_string_array(in, mode, strings, create, fill) ==
    LET a == ArcOf(in)
        h == opCount + 1
        st1 == pass_argument(arc, a, mode)
        parts == ref_parts(in)
    IN  IF ~parts.ok THEN rejected("from_string_array", in, mode, parts.err, drop_input(st1, a))
        ELSE
        LET st == drop_input(drop_guard(take_guard(st1, parts.guard), parts.guard), a)
            created == NativeCall("CreateTensorAsOrtValue", 0, Len(parts.shape), IF create = "ok" THEN h ELSE 0)
            filled == NativeCall("FillStringTensor", 0, Len(strings), h)
            value == ForeignValue(h, parts.shape, "String", "from_value", NoGuard, 0, "CreateTensorAsOrtValue")
            op(res, err, ptr) == Op("from_string_array", in, mode, res, err, ptr, st)
        IN  /\ arc' = st
            /\ obtained' = IF create = "ok" THEN obtained \cup {h} ELSE obtained
            /\ IF create = "err"
               THEN /\ calls' = <<created>> /\ lastOp' = op("Err", "NativeStatus", 0)
                    /\ UNCHANGED values
               ELSE IF create = "null"
               THEN /\ calls' = <<created>> /\ lastOp' = op("Err", "NullResult", 0)
                    /\ UNCHANGED values
               ELSE IF ~null_terminated_copies(strings)
               THEN /\ calls' = <<created>> /\ lastOp' = op("Err", "NulByte", 0)
                    /\ UNCHANGED values
               ELSE IF fill = "err"
               THEN /\ calls' = <<created, filled>> /\ lastOp' = op("Err", "NativeStatus", 0)
                    /\ UNCHANGED values
               ELSE /\ calls' = <<created, filled>> /\ lastOp' = op("Ok", "", h)
                    /\ values' = values \cup {value}

FromStringArray ==
    /\ opCount < MaxOps
    /\ \E in \in SourceInputs(ViewKinds, opCount + 1), create \in CreateOutcomes, fill \in StatusOutcomes :
          /\ CanPass(in)
          /\ (~ref_parts(in).ok \/ create # "ok") => fill = "ok"
          /\ ~ref_parts(in).ok => create = "ok"
          /\ \E mode \in ArgModes(in), strings \in StringData(in.len) :
                /\ from_string_array(in, mode, strings, create, fill)
                /\ callerArcs' = CallerAfter(ArcOf(in), mode)
    /\ opCount' = opCount + 1
    /\ UNCHANGED <<releases, dimVars, ckptVars, optVars, thrVars>>

(***************************************************************************)
(* The destruction of a Foreign Value: the native release entry point is   *)
(* invoked iff the value owns its native resource, and the retained        *)
(* backing is dropped with the value.                                      *)
(***************************************************************************)
drop_value(v) ==
    /\ releases' = IF v.drop THEN [releases EXCEPT ![v.ptr] = @ + 1] ELSE releases
    /\ arc' = drop_guard(arc, v.backing)
    /\ values' = values \ {v}

DropValue ==
    /\ \E v \in values : drop_value(v)
    /\ UNCHANGED <<opCount, obtained, callerArcs, lastOp, calls, dimVars, ckptVars, optVars, thrVars>>

(* The caller drops a reference-counting handle of its own. *)
DropCallerArc ==
    /\ \E a \in Arcs :
          /\ callerArcs[a] >= 1
          /\ callerArcs' = [callerArcs EXCEPT ![a] = @ - 1]
          /\ arc' = arc_drop(arc, a)
    /\ UNCHANGED <<opCount, obtained, releases, values, lastOp, calls, dimVars, ckptVars, optVars, thrVars>>

TensorNext ==
    \/ FromArray
    \/ FromArrayView
    \/ FromArrayViewMut
    \/ FromRaw
    \/ FromStringArray
    \/ DropValue
    \/ DropCallerArc

(***************************************************************************)
(* The training checkpoint bridge (src/training/mod.rs).                   *)
(*                                                                         *)
(* The native engine is external: the outcome of each entry point is drawn *)
(* from the outcomes its contract allows, and the checkpoint's property    *)
(* store is kept as the native side would keep it.                         *)
(***************************************************************************)
CkHandles == 1 .. MaxLoads

ValidNames == {"epoch"}
Names == ValidNames \cup {"nul"}       \* "nul": a name with an embedded null byte

Absent == [ty |-> "Absent", v |-> ""]
PropInt == [ty |-> "Int", v |-> "5"]
PropFloat == [ty |-> "Float", v |-> "0.5"]
PropString(str) == [ty |-> "String", v |-> str]
Properties == {PropInt, PropFloat, PropString("abc"), PropString("multibyte"), PropString("nul")}

(* str::as_bytes: the UTF-8 bytes of a string.  "multibyte" stands for a
   string of one two-byte character, "nul" for one with a null byte. *)
as_bytes(str) ==
    CASE str = "abc" -> <<97, 98, 99>>
      [] str = "multibyte" -> <<195, 169>>
      [] str = "nul" -> <<97, 0, 98>>
      [] str = "epoch" -> <<101, 112, 111, 99, 104>>
      [] OTHER -> <<>>

(* CString::new(..).as_ptr(): the bytes followed by the terminator. *)
c_string(str) == Append(as_bytes(str), 0)

(* What AddProperty is handed: the i64 behind `&value as *const i64`, the
   bits of the f32 behind `&value as *const f32`, or the C string. *)
i64_of(v) == IF v = "5" THEN 5 ELSE 0
f32_bits_of(v) == IF v = "0.5" THEN 1056964608 ELSE 0

native_value(property) ==
    CASE property.ty = "Int" -> [ty |-> "Int", v |-> <<i64_of(property.v)>>]
      [] property.ty = "Float" -> [ty |-> "Float", v |-> <<f32_bits_of(property.v)>>]
      [] property.ty = "String" -> [ty |-> "String", v |-> c_string(property.v)]
      [] OTHER -> [ty |-> "Absent", v |-> <<>>]

NativeAbsent == native_value(Absent)

(* CStr::from_ptr reads the bytes before the first null byte.  The variant
   takes the terminator along. *)
RECURSIVE bytes_before_nul(_, _)
bytes_before_nul(buf, k) ==
    IF k > Len(buf) \/ buf[k] = 0 THEN SubSeq(buf, 1, k - 1) ELSE bytes_before_nul(buf, k + 1)

c_str_with_nul(buf) == buf

c_str(buf) == bytes_before_nul(buf, 1)

(* to_string_lossy: the string of these bytes; bytes that are not UTF-8
   become U+FFFD. *)
to_string_lossy(bytes) ==
    IF \E str \in {"abc", "multibyte", "epoch"} : as_bytes(str) = bytes
    THEN CHOOSE str \in {"abc", "multibyte", "epoch"} : as_bytes(str) = bytes
    ELSE IF bytes = <<>> THEN "" ELSE "U+FFFD"

(* What get_property makes of the value GetProperty returned. *)
property_of(stored) ==
    CASE stored.ty = "Int" -> [ty |-> "Int", v |-> IF stored.v[1] = 5 THEN "5" ELSE "0"]
      [] stored.ty = "Float" -> [ty |-> "Float", v |-> IF stored.v[1] = 1056964608 THEN "0.5" ELSE "0.0"]
      [] stored.ty = "String" -> PropString(to_string_lossy(c_str(stored.v)))
      [] OTHER -> Absent

(* CString::new: fails on an embedded null byte. *)
cstring_ok(str) == \A k \in 1 .. Len(as_bytes(str)) : as_bytes(str)[k] # 0

(* Addresses and handles the native side hands out, per checkpoint. *)
BufferOf(h) == 80 + h
ValueOf(h) == 90 + h
InfoOf(h) == 100 + h

CkCall(fn, h, alloc, buf, out) == [fn |-> fn, h |-> h, alloc |-> alloc, buf |-> buf, out |-> out]

CkOp(op, result, err, h, value) == [op |-> op, result |-> result, err |-> err, h |-> h, value |-> value]

(***************************************************************************)
(* training_api: OnceLock::get_or_init runs GetTrainingApi the first time  *)
(* and keeps its answer, a table or null; a null answer is an error.       *)
(***************************************************************************)
get_or_init(cell) ==
    IF cell = "uninit" THEN (IF build = "training" THEN "table" ELSE "null") ELSE cell

training_api_ok(cell) == get_or_init(cell) = "table"

lookups_after(cell) == IF cell = "uninit" THEN apiLookups + 1 ELSE apiLookups

CkptInit ==
    /\ build \in {"training", "no_training"}
    /\ apiCell = "uninit"
    /\ apiLookups = 0
    /\ ckLoads = 0
    /\ ckLive = {}
    /\ ckLoaded = {}
    /\ ckDropped = {}
    /\ ckReleases = [h \in 0 .. MaxLoads |-> 0]
    /\ ckProps = [h \in CkHandles |-> [n \in ValidNames |-> NativeAbsent]]
    /\ ckAdded = [h \in CkHandles |-> [n \in ValidNames |-> Absent]]
    /\ ckAsked = ""
    /\ ckLateUse = FALSE
    /\ ckLast = CkOp("none", "", "", 0, Absent)
    /\ ckCalls = <<>>

CkptIdle ==
    /\ build = "training"
    /\ apiCell = "uninit"
    /\ apiLookups = 0
    /\ ckLoads = 0
    /\ ckLive = {}
    /\ ckLoaded = {}
    /\ ckDropped = {}
    /\ ckReleases = [h \in 0 .. MaxLoads |-> 0]
    /\ ckProps = [h \in CkHandles |-> [n \in ValidNames |-> NativeAbsent]]
    /\ ckAdded = [h \in CkHandles |-> [n \in ValidNames |-> Absent]]
    /\ ckAsked = ""
    /\ ckLateUse = FALSE
    /\ ckLast = CkOp("none", "", "", 0, Absent)
    /\ ckCalls = <<>>

(* A trainsys! call through `training_api()?`: the operation returns the
   error when the table is missing. *)
api_touched ==
    /\ apiCell' = get_or_init(apiCell)
    /\ apiLookups' = lookups_after(apiCell)

api_untouched == UNCHANGED <<apiCell, apiLookups>>

(* The operation ends with `last` after the native calls `made`. *)
ck_done(last, made) ==
    /\ ckLast' = last
    /\ ckCalls' = made

(* A native call on a checkpoint handle: was the handle released before? *)
late_use(h) == ckLateUse \/ ckReleases[h] > 0

(***************************************************************************)
(* Checkpoint::load and Checkpoint::load_from_buffer: the status is        *)
(* checked, then the out-pointer; only then is a Checkpoint made.  The     *)
(* loaded image brings its own properties.                                 *)
(***************************************************************************)
load(fn, native, image) ==
    LET h == ckLoads + 1 IN
    /\ ckLoads' = ckLoads + 1
    /\ api_touched
    /\ UNCHANGED <<ckDropped, ckReleases, ckLateUse>>
    /\ IF ~training_api_ok(apiCell)
       THEN /\ ck_done(CkOp("load", "Err", "Unavailable", 0, Absent), <<>>)
            /\ UNCHANGED <<ckLive, ckLoaded, ckProps, ckAdded>>
       ELSE IF native = "err"
       THEN /\ ck_done(CkOp("load", "Err", "NativeStatus", 0, Absent), <<CkCall(fn, 0, "", 0, 0)>>)
            /\ UNCHANGED <<ckLive, ckLoaded, ckProps, ckAdded>>
       ELSE IF native = "null"
       THEN /\ ck_done(CkOp("load", "Err", "NullResult", 0, Absent), <<CkCall(fn, 0, "", 0, 0)>>)
            /\ UNCHANGED <<ckLive, ckLoaded, ckProps, ckAdded>>
       ELSE /\ ck_done(CkOp("load", "Ok", "", h, Absent), <<CkCall(fn, 0, "", 0, h)>>)
            /\ ckLive' = ckLive \cup {h}
            /\ ckLoaded' = ckLoaded \cup {h}
            /\ ckProps' = [ckProps EXCEPT ![h] = [n \in ValidNames |-> native_value(image[n])]]
            /\ ckAdded' = [ckAdded EXCEPT ![h] = image]

Images == {[n \in ValidNames |-> Absent], [n \in ValidNames |-> IF n = "epoch" THEN PropInt ELSE Absent]}

Load ==
    /\ ckLoads < MaxLoads
    /\ \E fn \in {"LoadCheckpoint", "LoadCheckpointFromBuffer"}, native \in CreateOutcomes, image \in Images :
          /\ (~training_api_ok(apiCell) \/ native # "ok") => image = [n \in ValidNames |-> Absent]
          /\ ~training_api_ok(apiCell) => (native = "ok" /\ fn = "LoadCheckpoint")
          /\ load(fn, native, image)
    /\ UNCHANGED <<build, ckAsked, dimVars, tensorVars, optVars, thrVars>>

(* The same call through the unwrapping form of trainsys!, which panics
   when the table is missing. *)
simple_call_unwrapping(op, fn, h, native) ==
    /\ api_touched
    /\ IF ~training_api_ok(apiCell)
       THEN /\ ck_done(CkOp(op, "Panic", "Unavailable", h, Absent), <<>>)
            /\ UNCHANGED ckLateUse
       ELSE /\ ck_done(CkOp(op, IF native = "ok" THEN "Ok" ELSE "Err",
                            IF native = "ok" THEN "" ELSE "NativeStatus", h, Absent),
                       <<CkCall(fn, h, "", 0, 0)>>)
            /\ ckLateUse' = late_use(h)

(* An operation of a live Checkpoint that makes one status-checked call. *)
simple_call(op, fn, h, native) ==
    /\ api_touched
    /\ IF ~training_api_ok(apiCell)
       THEN /\ ck_done(CkOp(op, "Err", "Unavailable", h, Absent), <<>>)
            /\ UNCHANGED ckLateUse
       ELSE /\ ck_done(CkOp(op, IF native = "ok" THEN "Ok" ELSE "Err",
                            IF native = "ok" THEN "" ELSE "NativeStatus", h, Absent),
                       <<CkCall(fn, h, "", 0, 0)>>)
            /\ ckLateUse' = late_use(h)

rejected_name(op, h) ==
    /\ ck_done(CkOp(op, "Err", "NulByte", h, Absent), <<>>)
    /\ api_untouched
    /\ UNCHANGED ckLateUse

(* Checkpoint::save *)
Save ==
    /\ \E h \in ckLive, native \in StatusOutcomes : simple_call("save", "SaveCheckpoint", h, native)
    /\ UNCHANGED <<build, ckLoads, ckLive, ckLoaded, ckDropped, ckReleases, ckProps, ckAdded, ckAsked, dimVars, tensorVars, optVars, thrVars>>

(* Checkpoint::add_property: the name, and a String value, become CStrings
   before AddProperty is called. *)
add_property(h, name, property, native) ==
    IF ~cstring_ok(name) THEN rejected_name("add_property", h) /\ UNCHANGED <<ckProps, ckAdded>>
    ELSE IF property.ty = "String" /\ ~cstring_ok(property.v)
    THEN rejected_name("add_property", h) /\ UNCHANGED <<ckProps, ckAdded>>
    ELSE /\ simple_call("add_property", "AddProperty", h, native)
         /\ ckProps' = IF training_api_ok(apiCell) /\ native = "ok"
                       THEN [ckProps EXCEPT ![h][name] = native_value(property)]
                       ELSE ckProps
         /\ ckAdded' = IF training_api_ok(apiCell) /\ native = "ok"
                       THEN [ckAdded EXCEPT ![h][name] = property]
                       ELSE ckAdded

AddProperty ==
    /\ \E h \in ckLive, name \in Names, property \in Properties, native \in StatusOutcomes :
          add_property(h, name, property, native)
    /\ UNCHANGED <<build, ckLoads, ckLive, ckLoaded, ckDropped, ckReleases, ckAsked, dimVars, tensorVars, optVars, thrVars>>

(* The property buffer is freed for a String.  The variant frees whatever
   GetProperty returned. *)
frees_property_value_always(property_type) == TRUE

frees_property_value(property_type) == property_type = "String"

(***************************************************************************)
(* Checkpoint::get_property.  GetProperty is called through the unwrapping *)
(* form of trainsys!, with Allocator::default(); a status that is not a    *)
(* success gives None.  buf is the buffer the native side returns.         *)
(***************************************************************************)
get_property(h, name, native, buf) ==
    IF ~cstring_ok(name)
    THEN /\ ck_done(CkOp("get_property", "None", "", h, Absent), <<>>)
         /\ api_untouched
         /\ UNCHANGED ckLateUse
    ELSE
    /\ api_touched
    /\ IF ~training_api_ok(apiCell)
       THEN /\ ck_done(CkOp("get_property", "Panic", "Unavailable", h, Absent), <<>>)
            /\ UNCHANGED ckLateUse
       ELSE
       LET found == native = "ok" /\ ckProps[h][name] # NativeAbsent
           property == property_of(ckProps[h][name])
           got == CkCall("GetProperty", h, "default", IF found THEN buf ELSE 0,
                         IF found THEN property.ty
                         ELSE IF native = "ok" THEN "NotFound" ELSE "Failed")
           copied == CkCall("to_string_lossy", h, "", buf, "String")
           freed == CkCall("AllocatorFree", h, "default", buf, "")
       IN  /\ ckLateUse' = late_use(h)
           /\ IF ~found
              THEN ck_done(CkOp("get_property", "None", "", h, Absent), <<got>>)
              ELSE IF property.ty = "String"
              THEN ck_done(CkOp("get_property", "Some", "", h, property),
                           IF frees_property_value(property.ty) THEN <<got, copied, freed>>
                           ELSE <<got, copied>>)
              ELSE ck_done(CkOp("get_property", "Some", "", h, property),
                           IF frees_property_value(property.ty) THEN <<got, freed>> ELSE <<got>>)

GetProperty ==
    /\ \E h \in ckLive, name \in Names, native \in StatusOutcomes :
          /\ get_property(h, name, native, BufferOf(h))
          /\ ckAsked' = name
    /\ UNCHANGED <<build, ckLoads, ckLive, ckLoaded, ckDropped, ckReleases, ckProps, ckAdded, dimVars, tensorVars, optVars, thrVars>>

(* The same call without the check of the out-pointer. *)
fetch_call_unchecked(op, fn, h, native, out) ==
    IF native = "err"
    THEN ck_done(CkOp(op, "Err", "NativeStatus", h, Absent), <<CkCall(fn, h, "", 0, 0)>>)
    ELSE ck_done(CkOp(op, "Ok", "", h, Absent),
                 <<CkCall(fn, h, "", 0, IF native = "null" THEN 0 ELSE out)>>)

(* An operation whose native call returns a handle: the status is checked,
   then the out-pointer. *)
fetch_call(op, fn, h, native, out) ==
    IF native = "err"
    THEN ck_done(CkOp(op, "Err", "NativeStatus", h, Absent), <<CkCall(fn, h, "", 0, 0)>>)
    ELSE IF native = "null"
    THEN ck_done(CkOp(op, "Err", "NullResult", h, Absent), <<CkCall(fn, h, "", 0, 0)>>)
    ELSE ck_done(CkOp(op, "Ok", "", h, Absent), <<CkCall(fn, h, "", 0, out)>>)

(* Checkpoint::get_parameter *)
get_parameter(h, name, native) ==
    IF ~cstring_ok(name) THEN rejected_name("get_parameter", h)
    ELSE /\ api_touched
         /\ IF ~training_api_ok(apiCell)
            THEN /\ ck_done(CkOp("get_parameter", "Err", "Unavailable", h, Absent), <<>>)
                 /\ UNCHANGED ckLateUse
            ELSE /\ fetch_call("get_parameter", "GetParameter", h, native, ValueOf(h))
                 /\ ckLateUse' = late_use(h)

GetParameter ==
    /\ \E h \in ckLive, name \in Names, native \in CreateOutcomes : get_parameter(h, name, native)
    /\ UNCHANGED <<build, ckLoads, ckLive, ckLoaded, ckDropped, ckReleases, ckProps, ckAdded, ckAsked, dimVars, tensorVars, optVars, thrVars>>

(* Checkpoint::update_parameter *)
update_parameter(h, name, native) ==
    IF ~cstring_ok(name) THEN rejected_name("update_parameter", h)
    ELSE simple_call("update_parameter", "UpdateParameter", h, native)

UpdateParameter ==
    /\ \E h \in ckLive, name \in Names, native \in StatusOutcomes : update_parameter(h, name, native)
    /\ UNCHANGED <<build, ckLoads, ckLive, ckLoaded, ckDropped, ckReleases, ckProps, ckAdded, ckAsked, dimVars, tensorVars, optVars, thrVars>>

(***************************************************************************)
(* Checkpoint::get_parameter_type: GetParameterTypeAndShape, then          *)
(* extract_data_type_from_tensor_info, then ReleaseTensorTypeAndShapeInfo. *)
(* The extraction returns a ValueType, not a Result: when it fails, it     *)
(* unwinds, and the statements after it are not run.                       *)
(***************************************************************************)
ExtractOutcomes == {"ok", "panic"}

get_parameter_type(h, name, native, extraction, info) ==
    IF ~cstring_ok(name) THEN rejected_name("get_parameter_type", h)
    ELSE
    /\ api_touched
    /\ IF ~training_api_ok(apiCell)
       THEN /\ ck_done(CkOp("get_parameter_type", "Err", "Unavailable", h, Absent), <<>>)
            /\ UNCHANGED ckLateUse
       ELSE
       LET got == CkCall("GetParameterTypeAndShape", h, "", 0, info)
           extracted == CkCall("extract_data_type_from_tensor_info", h, "", 0, info)
           released == CkCall("ReleaseTensorTypeAndShapeInfo", h, "", 0, info)
       IN  /\ ckLateUse' = late_use(h)
           /\ IF native # "ok"
              THEN fetch_call("get_parameter_type", "GetParameterTypeAndShape", h, native, info)
              ELSE IF extraction = "panic"
              THEN ck_done(CkOp("get_parameter_type", "Panic", "", h, Absent), <<got, extracted>>)
              ELSE ck_done(CkOp("get_parameter_type", "Ok", "", h, Absent), <<got, extracted, released>>)

GetParameterType ==
    /\ \E h \in ckLive, name \in Names, native \in CreateOutcomes, extraction \in ExtractOutcomes :
          /\ (~cstring_ok(name) \/ native # "ok") => extraction = "ok"
          /\ get_parameter_type(h, name, native, extraction, InfoOf(h))
    /\ UNCHANGED <<build, ckLoads, ckLive, ckLoaded, ckDropped, ckReleases, ckProps, ckAdded, ckAsked, dimVars, tensorVars, optVars, thrVars>>

(* ReleaseCheckpointState is called once by the drop.  The variant forgets
   the call. *)
released_by_drop_never(n) == n

released_by_drop(n) == n + 1

(***************************************************************************)
(* impl Drop for Checkpoint: ReleaseCheckpointState through the unwrapping *)
(* form of trainsys!.  The Checkpoint is gone afterwards: no method can be *)
(* called on it.                                                           *)
(***************************************************************************)
drop_checkpoint(h) ==
    /\ api_touched
    /\ ckLive' = ckLive \ {h}
    /\ ckDropped' = ckDropped \cup {h}
    /\ ckProps' = [ckProps EXCEPT ![h] = [n \in ValidNames |-> NativeAbsent]]
    /\ ckAdded' = [ckAdded EXCEPT ![h] = [n \in ValidNames |-> Absent]]
    /\ IF ~training_api_ok(apiCell)
       THEN /\ ck_done(CkOp("drop", "Panic", "Unavailable", h, Absent), <<>>)
            /\ UNCHANGED <<ckReleases, ckLateUse>>
       ELSE /\ ck_done(CkOp("drop", "Ok", "", h, Absent), <<CkCall("ReleaseCheckpointState", h, "", 0, 0)>>)
            /\ ckReleases' = [ckReleases EXCEPT ![h] = released_by_drop(@)]
            /\ ckLateUse' = late_use(h)

DropCheckpoint ==
    /\ \E h \in ckLive : drop_checkpoint(h)
    /\ UNCHANGED <<build, ckLoads, ckLoaded, ckAsked, dimVars, tensorVars, optVars, thrVars>>

(* set_seed *)
SetSeed ==
    /\ ckLast.op # "set_seed"
    /\ \E native \in StatusOutcomes : simple_call("set_seed", "SetSeed", 0, native)
    /\ UNCHANGED <<build, ckLoads, ckLive, ckLoaded, ckDropped, ckReleases, ckProps, ckAdded, ckAsked, dimVars, tensorVars, optVars, thrVars>>

CkptNext ==
    \/ Load
    \/ Save
    \/ AddProperty
    \/ GetProperty
    \/ GetParameter
    \/ UpdateParameter
    \/ GetParameterType
    \/ DropCheckpoint
    \/ SetSeed

(***************************************************************************)
(* The Optimizer (src/training/mod.rs): a training-session handle and the  *)
(* calls made on it.  The native side keeps the learning rate, whether a   *)
(* scheduler is registered and the steps taken.                            *)
(***************************************************************************)
Sessions == {111, 112}
LearningRates == {1, 2}

ckptRest == <<ckLoads, ckLive, ckLoaded, ckDropped, ckReleases, ckProps, ckAdded, ckAsked,
              ckLateUse, ckLast, ckCalls>>

OptCall(fn, session, arg) == [fn |-> fn, session |-> session, arg |-> arg]

OptOp(op, result, err, value) == [op |-> op, result |-> result, err |-> err, value |-> value]

OptInit ==
    /\ optState = "none"
    /\ optSession = 0
    /\ optLr = 1
    /\ optSched = FALSE
    /\ optSteps = 0
    /\ optLast = OptOp("none", "", "", 0)
    /\ optCalls = <<>>

(* Optimizer::new: the session handle is taken as it is. *)
NewOptimizer ==
    /\ optState = "none"
    /\ optState' = "alive"
    /\ optSession' \in Sessions
    /\ optLast' = OptOp("new", "Ok", "", 0)
    /\ optCalls' = <<>>
    /\ UNCHANGED <<optLr, optSched, optSteps>>
    /\ UNCHANGED <<build, apiCell, apiLookups, ckptRest, dimVars, tensorVars, thrVars>>

(* The call is made once, whatever its status.  The variant makes it again
   after a non-success status. *)
issue_with_retry(call, native) == IF native = "err" THEN <<call, call>> ELSE <<call>>

issue(call, native) == <<call>>

(* A method of the Optimizer: one trainsys![unsafe method(..)?] call on the
   session, whose non-success status is returned as the error. *)
optimizer_call(op, fn, arg, native, value) ==
    /\ optState = "alive"
    /\ api_touched
    /\ IF ~training_api_ok(apiCell)
       THEN /\ optLast' = OptOp(op, "Err", "Unavailable", 0)
            /\ optCalls' = <<>>
       ELSE /\ optLast' = OptOp(op, IF native = "ok" THEN "Ok" ELSE "Err",
                                IF native = "ok" THEN "" ELSE "NativeStatus",
                                IF native = "ok" THEN value ELSE 0)
            /\ optCalls' = issue(OptCall(fn, optSession, arg), native)
    /\ UNCHANGED <<optState, optSession>>
    /\ UNCHANGED <<build, ckptRest, dimVars, tensorVars, thrVars>>

(* Whether the native side carried the call out. *)
carried_out(native) == training_api_ok(apiCell) /\ native = "ok"

(* Optimizer::reset_grad *)
ResetGrad ==
    /\ \E native \in StatusOutcomes : optimizer_call("reset_grad", "LazyResetGrad", 0, native, 0)
    /\ UNCHANGED <<optLr, optSched, optSteps>>

(* Optimizer::lr *)
Lr ==
    /\ \E native \in StatusOutcomes : optimizer_call("lr", "GetLearningRate", 0, native, optLr)
    /\ UNCHANGED <<optLr, optSched, optSteps>>

(* Optimizer::set_lr *)
SetLr ==
    /\ \E native \in StatusOutcomes, lr \in LearningRates :
          /\ optimizer_call("set_lr", "SetLearningRate", lr, native, 0)
          /\ optLr' = IF carried_out(native) THEN lr ELSE optLr
    /\ UNCHANGED <<optSched, optSteps>>

(* Optimizer::register_scheduler *)
RegisterScheduler ==
    /\ \E native \in StatusOutcomes :
          /\ optimizer_call("register_scheduler", "RegisterLinearLRScheduler", 0, native, 0)
          /\ optSched' = (optSched \/ carried_out(native))
    /\ UNCHANGED <<optLr, optSteps>>

(* Optimizer::step: OptimizerStep with null run options. *)
Step ==
    /\ optSteps < MaxSteps
    /\ \E native \in StatusOutcomes :
          /\ optimizer_call("step", "OptimizerStep", 0, native, 0)
          /\ optSteps' = IF carried_out(native) THEN optSteps + 1 ELSE optSteps
    /\ UNCHANGED <<optLr, optSched>>

(* Optimizer::step_with_options: OptimizerStep with the caller's options. *)
StepWithOptions ==
    /\ optSteps < MaxSteps
    /\ \E native \in StatusOutcomes, options \in {121} :
          /\ optimizer_call("step_with_options", "OptimizerStep", options, native, 0)
          /\ optSteps' = IF carried_out(native) THEN optSteps + 1 ELSE optSteps
    /\ UNCHANGED <<optLr, optSched>>

(* Optimizer::step_scheduler *)
StepScheduler ==
    /\ \E native \in StatusOutcomes : optimizer_call("step_scheduler", "SchedulerStep", 0, native, 0)
    /\ UNCHANGED <<optLr, optSched, optSteps>>

(* The Optimizer goes out of scope: it has no Drop impl and its fields have
   none, so nothing is called. *)
DropOptimizer ==
    /\ optState = "alive"
    /\ optState' = "dropped"
    /\ optLast' = OptOp("drop", "Ok", "", 0)
    /\ optCalls' = <<>>
    /\ UNCHANGED <<optSession, optLr, optSched, optSteps>>
    /\ UNCHANGED <<build, apiCell, apiLookups, ckptRest, dimVars, tensorVars, thrVars>>

OptNext ==
    \/ NewOptimizer
    \/ ResetGrad
    \/ Lr
    \/ SetLr
    \/ RegisterScheduler
    \/ Step
    \/ StepWithOptions
    \/ StepScheduler
    \/ DropOptimizer

Threads == 1 .. MaxThreads

ThreadsIdle ==
    /\ thPc = [t \in Threads |-> "idle"]
    /\ thGot = [t \in Threads |-> "none"]

(***************************************************************************)
(* training_api called from several threads.  OnceLock::get_or_init        *)
(* returns the stored value when there is one; otherwise one caller takes  *)
(* the cell and runs the closure, which calls GetTrainingApi, while the    *)
(* other callers wait for it to finish.                                    *)
(***************************************************************************)
thrRest == <<ckptRest, optVars, dimVars, tensorVars>>

(* A thread calls training_api. *)
CallTrainingApi(t) ==
    /\ thPc[t] = "idle"
    /\ thPc' = [thPc EXCEPT ![t] = "get_or_init"]
    /\ thGot' = [thGot EXCEPT ![t] = "none"]
    /\ UNCHANGED <<build, apiCell, apiLookups, thrRest>>

(* Taking the cell marks the initialisation as running.  The variant leaves
   the cell as it was. *)
take_cell_unmarked(cell) == cell

take_cell(cell) == "running"

(* get_or_init: the value is there, or the cell is taken for the closure. *)
GetOrInit(t) ==
    /\ thPc[t] = "get_or_init"
    /\ apiCell # "running"
    /\ IF apiCell = "uninit"
       THEN /\ apiCell' = take_cell(apiCell)
            /\ thPc' = [thPc EXCEPT ![t] = "closure"]
       ELSE /\ thPc' = [thPc EXCEPT ![t] = "non_null"]
            /\ UNCHANGED apiCell
    /\ UNCHANGED <<build, apiLookups, thGot, thrRest>>

(* The closure: GetTrainingApi is called and its answer is stored. *)
RunClosure(t) ==
    /\ thPc[t] = "closure"
    /\ apiLookups' = apiLookups + 1
    /\ apiCell' = IF build = "training" THEN "table" ELSE "null"
    /\ thPc' = [thPc EXCEPT ![t] = "non_null"]
    /\ UNCHANGED <<build, thGot, thrRest>>

(* NonNull::new(..).ok_or_else(..)?: the table, or the error. *)
ReturnTrainingApi(t) ==
    /\ thPc[t] = "non_null"
    /\ thGot' = [thGot EXCEPT ![t] = IF apiCell = "table" THEN "table" ELSE "Err"]
    /\ thPc' = [thPc EXCEPT ![t] = "idle"]
    /\ UNCHANGED <<build, apiCell, apiLookups, thrRest>>

ApiNext ==
    \E t \in Threads :
        \/ CallTrainingApi(t)
        \/ GetOrInit(t)
        \/ RunClosure(t)
        \/ ReturnTrainingApi(t)

vars == <<dimVars, tensorVars, ckptVars, optVars, thrVars>>

SharedNext ==
    \/ SharedFromArrayView
    \/ DropValue
    \/ DropCallerArc

DimsNext == ValidateDims \/ ValidateUnit

InitDims == DimsInit /\ TensorInit /\ CkptIdle /\ OptInit /\ ThreadsIdle

Init == TensorInit /\ DimsIdle /\ CkptIdle /\ OptInit /\ ThreadsIdle

InitCkpt == CkptInit /\ TensorInit /\ DimsIdle /\ OptInit /\ ThreadsIdle

SpecDims == InitDims /\ [][DimsNext]_vars

Spec == Init /\ [][TensorNext]_vars

SpecShared == Init /\ [][SharedNext]_vars

SpecCkpt == InitCkpt /\ [][CkptNext]_vars

(* A training session, and so an Optimizer, exists only in a build with
   training. *)
SpecOpt == Init /\ [][OptNext]_vars

SpecApi == InitCkpt /\ [][ApiNext]_vars

(* The training operations in either build.  The Checkpoints and the
   Optimizer share nothing but the training API table, which the build
   fixes: a behaviour uses the ones or the other. *)
CheckpointsOnly == optLast.op = "none" /\ CkptNext

OptimizerOnly == ckLast.op = "none" /\ OptNext

TrainingNext == CheckpointsOnly \/ OptimizerOnly

SpecTraining == InitCkpt /\ [][TrainingNext]_vars

(* The operations that wrap a native handle: the tensor constructors and
   the Checkpoints.  They share no state: a behaviour uses the ones or the
   other. *)
TensorsOnly == ckLast.op = "none" /\ TensorNext

CheckpointsAfterNoTensor == TensorInit /\ CkptNext

HandlesNext == TensorsOnly \/ CheckpointsAfterNoTensor

SpecHandles == Init /\ [][HandlesNext]_vars

(***************************************************************************)
(* Properties of the shape validator, checked under SpecDims.              *)
(***************************************************************************)
(* The product of the dimensions as a mathematical integer. *)
RECURSIVE ExactProduct(_, _)
ExactProduct(dims, k) ==
    IF k > Len(dims) THEN 1 ELSE dims[k] * ExactProduct(dims, k + 1)

Product(dims) == ExactProduct(dims, 1)

AllAtLeastOne(dims) == \A k \in 1 .. Len(dims) : dims[k] >= 1

FirstNonPositive(dims) ==
    CHOOSE k \in 1 .. Len(dims) : dims[k] <= 0 /\ \A j \in 1 .. k - 1 : dims[j] >= 1

ExpectedAbsentOrMatching(in) ==
    ~in.expected.some \/ in.expected.v = Product(in.shape.dims)

SeqCallDone == dimOut # Pending /\ dimIn.shape.kind = "seq"

(* No dimension leaves the i64 range and the product fits a usize. *)
NoOverflow(dims) ==
    /\ \A k \in 1 .. Len(dims) : dims[k] <= I64_MAX
    /\ Product(dims) <= USIZE_MAX

(* C8: for every dimension sequence of usize, i32 or i64 and an absent or
   matching expected element count, to_dimensions returns the same values in
   the same order when all entries are >= 1, and otherwise fails with
   InvalidArgument naming the 1-based index of the first entry <= 0.
   Violated by the code: a usize above the largest i64 passes `*c >= 1` and
   is returned as a negative i64 (the conversion of C17). *)
C8_SameValuesOrFirstBadIndex ==
    (SeqCallDone /\ ExpectedAbsentOrMatching(dimIn)) =>
        IF AllAtLeastOne(dimIn.shape.dims)
        THEN dimOut.ok /\ dimOut.dims = dimIn.shape.dims
        ELSE /\ ~dimOut.ok
             /\ dimOut.code = "InvalidArgument"
             /\ dimOut.kind = "InvalidDimension"
             /\ dimOut.index = FirstNonPositive(dimIn.shape.dims)

(* The statement of C8 holds for the inputs that fit an i64: the only
   violations are the wrapped conversions. *)
C8_HoldsWithinI64 ==
    (SeqCallDone /\ ExpectedAbsentOrMatching(dimIn) /\ NoOverflow(dimIn.shape.dims)) =>
        IF AllAtLeastOne(dimIn.shape.dims)
        THEN dimOut.ok /\ dimOut.dims = dimIn.shape.dims
        ELSE /\ ~dimOut.ok
             /\ dimOut.kind = "InvalidDimension"
             /\ dimOut.index = FirstNonPositive(dimIn.shape.dims)

(* A (shape, data) tuple: the validator is given Some(len(data)). *)
TupleCallDone == dimOut # Pending /\ dimIn.expected.some

(* C9 as written, on the inputs where no conversion or product overflows:
   a tuple is accepted if and only if the product of its dimensions equals
   len(data), the product of () being 1.  Violated by a shape with a
   dimension <= 0 whose product equals the data length, such as [0] with
   no data: the code rejects it. *)
C9_AcceptedIffProductMatches ==
    (TupleCallDone /\ NoOverflow(dimIn.shape.dims)) =>
        (dimOut.ok <=> Product(dimIn.shape.dims) = dimIn.expected.v)

(* C9, amended: a tuple is accepted if and only if every dimension is >= 1
   and the product of the dimensions equals len(data), the product of ()
   being 1; () without an expected count is accepted; a mismatch for a shape
   whose dimensions are all >= 1 is an error reporting the computed product
   and the data length, and a shape with a dimension <= 0 is rejected as an
   invalid dimension whatever the data length. *)
C9_AcceptedIffValidAndProductMatches ==
    /\ (TupleCallDone /\ NoOverflow(dimIn.shape.dims)) =>
          /\ dimOut.ok <=>
                (AllAtLeastOne(dimIn.shape.dims) /\ Product(dimIn.shape.dims) = dimIn.expected.v)
          /\ dimOut.ok => dimOut.dims = dimIn.shape.dims
          /\ (AllAtLeastOne(dimIn.shape.dims) /\ ~dimOut.ok /\ dimIn.shape.kind = "seq") =>
                /\ dimOut.kind = "Mismatch"
                /\ dimOut.sum = Product(dimIn.shape.dims)
                /\ dimOut.expected = dimIn.expected.v
                /\ dimOut.sum # dimOut.expected
          /\ ~AllAtLeastOne(dimIn.shape.dims) => dimOut.kind = "InvalidDimension"
          /\ (dimIn.shape.kind = "unit" /\ ~dimOut.ok) => dimOut.kind = "ScalarLength"
    /\ (dimOut # Pending /\ dimIn.shape.kind = "unit" /\ ~dimIn.expected.some) => dimOut.ok

(* A shape of rank 2 whose product is the data length has been accepted. *)
C9_Witness ==
    /\ TupleCallDone
    /\ Len(dimIn.shape.dims) = 2
    /\ Product(dimIn.shape.dims) = dimIn.expected.v
    /\ dimIn.expected.v >= 2
    /\ dimOut.ok

(***************************************************************************)
(* Properties of tensor construction, checked under Spec and SpecShared.   *)
(***************************************************************************)
Wrapped(h) == \E v \in values : v.ptr = h

(* The value the last construction returned, while it exists. *)
LastValue == {v \in values : lastOp.result = "Ok" /\ v.ptr = lastOp.ptr}

(* C1: every native handle a construction obtained is wrapped in a Foreign
   Value or has been released, exactly once: no construction ends with an
   obtained handle that is neither.  Violated by from_string_array, whose
   error returns after CreateTensorAsOrtValue drop the raw value_ptr
   without releasing it. *)
C1_ObtainedHandleWrappedOrReleased ==
    \A h \in obtained :
        /\ releases[h] <= 1
        /\ Wrapped(h) <=> releases[h] = 0

ValidationErrors == {"Validation", "NulByte"}

(* C10: a construction that returns a validation error (a dimension <= 0,
   an element-count mismatch, an embedded null byte) has called no native
   entry point.  Violated by from_string_array, which converts the strings
   only after CreateTensorAsOrtValue has been called. *)
C10_ValidationErrorBeforeNativeCall ==
    (lastOp.result = "Err" /\ lastOp.err \in ValidationErrors) => calls = <<>>

Holders(a) == {v \in values : v.backing.kind = a}

GaveUp(op) == IF op.argMode = "move" THEN 1 ELSE 0

FailedAfterClone ==
    /\ lastOp.op = "from_array_view"
    /\ lastOp.arc # "none"
    /\ lastOp.result = "Err"
    /\ lastOp.err \in {"NativeStatus", "NullResult"}

(* C5: for every buffer shared through Arc<[T]> or Arc<Box<[T]>>, the
   strong count is the number of handles that exist (the caller's and those
   retained by Foreign Values), the buffer is allocated while that number
   is positive and has been freed exactly once when it is zero; and a
   from_array_view that fails after ref_parts cloned the handle leaves the
   count as it was before the call, apart from the handle the caller gave
   up by moving it into the call, while a successful one adds the one
   handle the new value retains. *)
C5_SharedBufferLivesWithItsHandles ==
    /\ \A a \in Arcs :
          /\ arc.strong[a] = callerArcs[a] + Cardinality(Holders(a))
          /\ arc.frees[a] = IF arc.strong[a] = 0 THEN 1 ELSE 0
    /\ FailedAfterClone => lastOp.rcAfter = lastOp.rcBefore - GaveUp(lastOp)
    /\ (lastOp.op = "from_array_view" /\ lastOp.arc # "none" /\ lastOp.result = "Ok") =>
          lastOp.rcAfter = lastOp.rcBefore + 1 - GaveUp(lastOp)

(* A construction from a shared buffer failed after the clone, while a
   Foreign Value made earlier from the same buffer is the only handle left. *)
C5_Witness ==
    /\ FailedAfterClone
    /\ callerArcs[lastOp.arc] = 0
    /\ Cardinality(Holders(lastOp.arc)) = 1
    /\ arc.frees[lastOp.arc] = 0

(* C6: a value made by from_array from a Vec or a Box<[T]> was created by
   CreateTensorWithDataAsOrtValue (no other entry point was called), with
   the address of the caller's allocation as data pointer; it retains that
   buffer, owns its native resource, and the data pointer is the address of
   the retained buffer's elements as long as the value exists. *)
C6_OwnedBufferReusedInPlace ==
    /\ \A v \in values :
          v.backing.kind \in OwnedTupleKinds =>
              /\ v.entry = "CreateTensorWithDataAsOrtValue"
              /\ v.drop
              /\ v.data = v.backing.data
              /\ v.data = HeapAddr(v.ptr)
    /\ (lastOp.op = "from_array" /\ lastOp.src \in OwnedTupleKinds) =>
          /\ \A k \in 1 .. Len(calls) :
                /\ calls[k].fn = "CreateTensorWithDataAsOrtValue"
                /\ calls[k].data = lastOp.inData
          /\ \A v \in LastValue :
                /\ v.backing.kind = lastOp.src
                /\ v.backing.data = lastOp.inData
                /\ v.data = lastOp.inData
                /\ v.drop

(* from_array has made a value from a Vec, which exists. *)
C6_Witness ==
    /\ lastOp.op = "from_array"
    /\ lastOp.src = "vec"
    /\ \E v \in LastValue : v.backing.kind = "vec" /\ v.backing.hdr # v.backing.data

ViewOps == {"from_array_view", "from_array_view_mut", "from_raw"}

(* C7: a value returned by from_array_view, from_array_view_mut or from_raw
   is not upgradable, was created with the address of the caller's data as
   data pointer, and retains nothing unless its source is reference-counted,
   in which case it retains a handle to that source; from_raw retains
   nothing. *)
C7_ViewsBorrowWithoutCopy ==
    /\ \A v \in values : v.wrapper \in {"TensorRef", "TensorRefMut"} => v.upgradable = "false"
    /\ lastOp.op \in ViewOps =>
          /\ \A k \in 1 .. Len(calls) : calls[k].data = lastOp.inData
          /\ \A v \in LastValue :
                /\ v.wrapper = IF lastOp.op = "from_array_view" THEN "TensorRef" ELSE "TensorRefMut"
                /\ v.upgradable = "false"
                /\ v.data = lastOp.inData
                /\ v.backing = IF lastOp.src \in Arcs
                               THEN BufferGuard(lastOp.src, 0, SharedAddr(lastOp.src))
                               ELSE NoGuard
                /\ lastOp.op = "from_raw" => v.backing = NoGuard

(* from_array_view has made a view of an Arc<[T]>, which exists. *)
C7_Witness ==
    /\ lastOp.op = "from_array_view"
    /\ lastOp.src = "arc_slice"
    /\ \E v \in LastValue : v.backing.kind = "arc_slice" /\ v.upgradable = "false"

(***************************************************************************)
(* Properties of the Checkpoint wrapper, checked under SpecCkpt.           *)
(***************************************************************************)
(* The positions of the last operation's calls to the entry point fn. *)
CallsOf(fn) == {k \in 1 .. Len(ckCalls) : ckCalls[k].fn = fn}

(* C2: ReleaseCheckpointState is invoked exactly once for each handle a
   successful load returned, only at the destruction of its Checkpoint and
   never for a load that failed, and no Checkpoint operation is issued on a
   handle after its release. *)
C2_CheckpointReleasedOnceAtDestruction ==
    /\ \A h \in CkHandles :
          /\ ckReleases[h] <= 1
          /\ ckReleases[h] = 1 <=> h \in ckDropped
          /\ h \notin ckLoaded => ckReleases[h] = 0
          /\ h \in ckLive => ckReleases[h] = 0
    /\ ckReleases[0] = 0
    /\ ckDropped \subseteq ckLoaded
    /\ ckLive = ckLoaded \ ckDropped
    /\ ckLast.result = "Err" /\ ckLast.op = "load" => ckLast.h \notin ckLoaded \cap CkHandles
    /\ ~ckLateUse
    /\ CallsOf("ReleaseCheckpointState") # {} => ckLast.op = "drop"

(* A Checkpoint was destroyed after a load had failed, while another
   Checkpoint is still in use. *)
C2_Witness ==
    /\ ckLast.op = "drop"
    /\ ckReleases[ckLast.h] = 1
    /\ ckLoads = MaxLoads
    /\ ckDropped # {}
    /\ Cardinality(ckLoaded) < ckLoads

(* C3: get_property frees the buffer GetProperty returned exactly once,
   through the allocator it passed to GetProperty and after copying the
   contents, when the property is a String; it never calls the allocator's
   free for an Int or Float property or when GetProperty fails. *)
C3_StringBufferFreedOnceThroughSameAllocator ==
    ckLast.op = "get_property" =>
        LET gets == CallsOf("GetProperty")
            frees == CallsOf("AllocatorFree")
        IN  IF \E g \in gets : ckCalls[g].out = "String"
            THEN /\ Cardinality(frees) = 1
                 /\ \A f \in frees : \E g \in gets :
                       /\ g < f
                       /\ ckCalls[f].alloc = ckCalls[g].alloc
                       /\ ckCalls[f].buf = ckCalls[g].buf
                       /\ \E c \in CallsOf("to_string_lossy") :
                             c > g /\ c < f /\ ckCalls[c].buf = ckCalls[g].buf
                 /\ ckLast.result = "Some" /\ ckLast.value.ty = "String"
            ELSE frees = {}

(* get_property returned a String property. *)
C3_Witness ==
    /\ ckLast.op = "get_property"
    /\ ckLast.result = "Some"
    /\ ckLast.value = PropString("abc")
    /\ CallsOf("AllocatorFree") # {}

(* C4: whenever GetParameterTypeAndShape has returned an info handle,
   get_parameter_type calls ReleaseTensorTypeAndShapeInfo on it exactly
   once, after the extraction and before it returns, whether the extraction
   succeeds or fails; when the native call fails or returns null, no release
   is issued. *)
C4_TypeInfoReleasedOnceAfterExtraction ==
    ckLast.op = "get_parameter_type" =>
        LET gets == {g \in CallsOf("GetParameterTypeAndShape") : ckCalls[g].out # 0}
            rels == CallsOf("ReleaseTensorTypeAndShapeInfo")
        IN  IF gets # {}
            THEN /\ Cardinality(rels) = 1
                 /\ \A r \in rels : \E g \in gets :
                       /\ ckCalls[r].out = ckCalls[g].out
                       /\ \E e \in CallsOf("extract_data_type_from_tensor_info") : g < e /\ e < r
            ELSE rels = {}

(* The same, for the calls in which the extraction returns. *)
C4_HoldsWhenExtractionReturns ==
    ckLast.op = "get_parameter_type" /\ ckLast.result # "Panic" =>
        C4_TypeInfoReleasedOnceAfterExtraction

(* A null byte in a name or in a String value is found before any native
   call of the checkpoint operation. *)
CheckpointNameCheckedFirst ==
    ckLast.err = "NulByte" => ckCalls = <<>> /\ ckLast.result = "Err"

(* C11: every failure of an operation is returned to the caller as an
   error, and get_property returns no value only when the native side
   reports that the property does not exist: never for a name with a null
   byte and never for another failure of GetProperty. *)
C11_OnlyNotFoundGivesNoValue ==
    /\ ckLast.err # "" => ckLast.result = "Err"
    /\ ckLast.op = "get_property" /\ ckLast.result = "None" =>
          \E g \in CallsOf("GetProperty") : ckCalls[g].out = "NotFound"

(* C13: a get_property whose native call does not fail returns the Property
   last added under that name to the checkpoint, the same variant with the
   same value, and no value for a name under which nothing was added. *)
C13_PropertyRoundTrip ==
    ckLast.op = "get_property"
    /\ (\E g \in CallsOf("GetProperty") : ckCalls[g].out # "Failed") =>
        IF ckAdded[ckLast.h][ckAsked] = Absent
        THEN ckLast.result = "None"
        ELSE ckLast.result = "Some" /\ ckLast.value = ckAdded[ckLast.h][ckAsked]

(* A string of a multi-byte character was added and read back. *)
C13_Witness ==
    /\ ckLast.op = "get_property"
    /\ ckLast.result = "Some"
    /\ ckLast.value = PropString("multibyte")
    /\ ckAdded[ckLast.h][ckAsked] = PropString("multibyte")

(***************************************************************************)
(* Properties of the Optimizer, checked under SpecOpt.                     *)
(***************************************************************************)
(* The native entry point of each Optimizer method. *)
EntryPointOf(op) ==
    CASE op = "reset_grad" -> "LazyResetGrad"
      [] op = "lr" -> "GetLearningRate"
      [] op = "set_lr" -> "SetLearningRate"
      [] op = "register_scheduler" -> "RegisterLinearLRScheduler"
      [] op \in {"step", "step_with_options"} -> "OptimizerStep"
      [] op = "step_scheduler" -> "SchedulerStep"
      [] OTHER -> ""

ReleaseEntryPoints ==
    {"ReleaseTrainingSession", "ReleaseCheckpointState", "ReleaseValue", "ReleaseTensorTypeAndShapeInfo"}

(* C14: each Optimizer operation issues exactly one call, of its own native
   entry point and on the Optimizer's session handle, also when the status
   is a non-success one, which is returned as an error; the creation and the
   destruction of the Optimizer call nothing, and no release entry point is
   ever called. *)
C14_OneCallPerOperationAndNoRelease ==
    /\ optLast.op \notin {"none", "new", "drop"} =>
          /\ Len(optCalls) = 1
          /\ optCalls[1].fn = EntryPointOf(optLast.op)
          /\ optCalls[1].session = optSession
          /\ optLast.result \in {"Ok", "Err"}
    /\ optLast.op \in {"none", "new", "drop"} => optCalls = <<>>
    /\ \A k \in 1 .. Len(optCalls) : optCalls[k].fn \notin ReleaseEntryPoints

(* A step failed after an earlier one had been taken. *)
C14_Witness ==
    /\ optLast.op = "step_with_options"
    /\ optLast.result = "Err"
    /\ optSteps = 1
    /\ optCalls # <<>>

(***************************************************************************)
(* Properties of training_api under concurrent calls, checked under        *)
(* SpecApi.                                                                *)
(***************************************************************************)
(* C18: under any interleaving of the threads' calls, GetTrainingApi is
   called at most once, and every call that has returned has returned the
   same outcome: the table, or the error if the lookup gave null. *)
C18_LookupOnceAndSameOutcome ==
    /\ apiLookups <= 1
    /\ \A t \in Threads :
          thGot[t] # "none" =>
              /\ thGot[t] = IF build = "training" THEN "table" ELSE "Err"
              /\ apiLookups = 1
    /\ \A t, u \in Threads : thGot[t] # "none" /\ thGot[u] # "none" => thGot[t] = thGot[u]

(* Every thread has called training_api in a build without training and
   has the error, after one lookup. *)
C18_Witness ==
    /\ \A t \in Threads : thGot[t] = "Err" /\ thPc[t] = "idle"
    /\ apiLookups = 1
    /\ apiCell = "null"

(***************************************************************************)
(* Properties of the training operations in a build without the training   *)
(* table, checked under SpecTraining.                                      *)
(***************************************************************************)
(* C15: when GetTrainingApi yields null, every training operation that is
   reached returns an error without a native call, and none panics; no
   Checkpoint comes to exist, so get_property and the destruction of a
   Checkpoint, which would unwrap the missing table, are not reached. *)
C15_UnavailableIsAnErrorNotAPanic ==
    build = "no_training" =>
        /\ ckLast.result # "Panic"
        /\ ckLast.op # "none" =>
              ckLast.result = "Err" /\ ckLast.err = "Unavailable" /\ ckCalls = <<>>
        /\ ckLive = {} /\ ckLoaded = {}
        /\ optLast.op \notin {"none", "new", "drop"} =>
              optLast.result = "Err" /\ optLast.err = "Unavailable" /\ optCalls = <<>>
        /\ apiCell \in {"uninit", "null"}

(* All the loads were tried in a build without training and the seed was
   set last. *)
C15_Witness ==
    /\ build = "no_training"
    /\ ckLoads = MaxLoads
    /\ ckLast.op = "set_seed"
    /\ ckLast.err = "Unavailable"
    /\ apiLookups = 1

(* An Optimizer method returned the error in a build without training. *)
OptimizerUnavailableReached ==
    build = "no_training" /\ optLast.op = "step" /\ optLast.err = "Unavailable"

(***************************************************************************)
(* Properties of the wrappers of native handles, checked under             *)
(* SpecHandles.                                                            *)
(***************************************************************************)
FetchEntryPoints == {"GetParameter", "GetParameterTypeAndShape"}

(* C12: every Foreign Value and every Checkpoint that exists holds a
   non-null native handle that a native call returned; an operation whose
   create or fetch entry point reported success with a null out-pointer
   returns an error and makes no wrapper. *)
C12_WrappersHoldNonNullHandles ==
    /\ \A v \in values : v.ptr # 0 /\ v.ptr \in obtained
    /\ lastOp.result = "Ok" => lastOp.ptr # 0 /\ lastOp.ptr \in obtained
    /\ lastOp.err = "NullResult" => lastOp.result = "Err" /\ lastOp.ptr = 0
    /\ \A h \in ckLive : h # 0 /\ h \in ckLoaded
    /\ ckLast.err = "NullResult" => ckLast.result = "Err"
    /\ ckLast.op = "load" /\ ckLast.result = "Err" => ckLast.h = 0
    /\ ckLast.op = "load" /\ ckLast.result = "Ok" => ckLast.h # 0 /\ ckLast.h \in ckLive
    /\ ckLast.result = "Ok" =>
          \A k \in 1 .. Len(ckCalls) : ckCalls[k].fn \in FetchEntryPoints => ckCalls[k].out # 0

(* GetParameter left its out-pointer null on a Checkpoint that exists. *)
C12_Witness ==
    /\ ckLast.op = "get_parameter"
    /\ ckLast.err = "NullResult"
    /\ ckLast.h \in ckLive
    /\ ckLoads = MaxLoads

(* A tensor construction met a null out-pointer. *)
TensorNullResultReached ==
    lastOp.err = "NullResult" /\ calls # <<>>

(***************************************************************************)
(* Further properties of the shape validator (SpecDims) and of the tensor  *)
(* constructors (Spec).                                                    *)
(***************************************************************************)
(* C17: for usize dimensions, also above the largest i64, a successful
   to_dimensions returns i64 values numerically equal to the input and
   >= 1.  Violated by the code: `*c >= 1` is tested on the usize and the
   value is then cast, so a usize above the largest i64 is returned as a
   negative i64. *)
C17_UsizeDimensionSurvivesCast ==
    (SeqCallDone /\ dimIn.shape.ty = "usize" /\ dimOut.ok) =>
        /\ Len(dimOut.dims) = Len(dimIn.shape.dims)
        /\ \A k \in 1 .. Len(dimOut.dims) :
              dimOut.dims[k] = dimIn.shape.dims[k] /\ dimOut.dims[k] >= 1

(* The signed dimensions do survive: an accepted i32 or i64 is returned as
   it is and is >= 1. *)
SignedDimensionSurvivesCast ==
    (SeqCallDone /\ dimIn.shape.ty # "usize" /\ dimOut.ok) =>
        \A k \in 1 .. Len(dimOut.dims) :
            dimOut.dims[k] = dimIn.shape.dims[k] /\ dimOut.dims[k] >= 1

(* C16: every Foreign Value a construction path has produced has a shape
   that passed the Shape Validator: every dimension of its declared type,
   which is the shape handed to the native side, is >= 1.  Violated by the
   code: from_raw hands the caller's shape on as it is and the ndarray
   sources cast their shape without validating it. *)
C16_EveryValueHasValidatedShape ==
    \A v \in values : \A k \in 1 .. Len(v.dims) : v.dims[k] >= 1

(* The values made from (shape, data) tuples do have validated shapes. *)
TupleValuesHaveValidatedShape ==
    (lastOp.result = "Ok" /\ lastOp.src \in (TupleViewKinds \cup OwnedTupleKinds)) =>
        \A v \in values : v.ptr = lastOp.ptr => \A k \in 1 .. Len(v.dims) : v.dims[k] >= 1

====
